---- MODULE Spec2Model ----
(***************************************************************************)
(* spotifymonitor (src/main.go, first revision, lines 1-559): the poll     *)
(* loop, the broadcast goroutine, the handler of "/", the websocket        *)
(* handlers and the artwork cache, as one state machine.                   *)
(*                                                                         *)
(* Tasks: the poller (main's for loop), the broadcaster (the goroutine of  *)
(* line 119), one goroutine per "/" request and one per websocket          *)
(* connection. A task's pc names the source line it is about to execute. *)
(*                                                                         *)
(* SpecReporter is the second revision (lines 561-914), which has the same *)
(* poll loop and broadcast goroutine and only the webhook. SpecStatus is   *)
(* the progress arithmetic of getCurrentStatus on inputs of its own.       *)
(***************************************************************************)
EXTENDS Integers, FiniteSets, Sequences, TLC

\* ------------------------------------------------------------------ bounds
NumConns == 2
NumReqs == 1
MaxTicks == 1

\* ------------------------------------------------------- program constants
PollInterval == 5000
BackoffInterval == 5000
BroadcastInterval == 1000

\* The clock is read in milliseconds and advances in steps of TickSteps: a
\* step is one poll interval, so a sleeping task wakes at the next step.
TickSteps == {PollInterval}
MaxTime == MaxTicks * PollInterval

Conns == 1..NumConns
Reqs == 1..NumReqs
Bcast == 0
Tasks == {Bcast} \cup Reqs

\* A nil *spotify.CurrentlyPlaying; the other pointers are heap cells.
Nil == 0
HeapSize == NumReqs + 2
Cells == 1..HeapSize

\* What client.PlayerCurrentlyPlaying can return with a nil error: the fields
\* of spotify.CurrentlyPlaying that main.go reads. item: Item is non-nil;
\* artists: len(Item.Artists); art: len(Item.Album.Images) > 0.
UpstreamRecords ==
    { [playing |-> TRUE,  item |-> TRUE,  artists |-> 1, art |-> TRUE,
       progress |-> 50000, duration |-> 200000],
      [playing |-> FALSE, item |-> TRUE,  artists |-> 1, art |-> FALSE,
       progress |-> 50000, duration |-> 200000],
      [playing |-> TRUE,  item |-> TRUE,  artists |-> 1, art |-> FALSE,
       progress |-> 0, duration |-> 0],
      [playing |-> TRUE,  item |-> TRUE,  artists |-> 0, art |-> FALSE,
       progress |-> 50000, duration |-> 200000],
      [playing |-> TRUE,  item |-> FALSE, artists |-> 0, art |-> FALSE,
       progress |-> 0, duration |-> 0] }

\* A heap cell: the record, its Timestamp field (ts), and whether that field
\* holds the stamp of line 141 (stamped) or still the value the upstream sent.
FreeCell == [used |-> FALSE, playing |-> FALSE, item |-> FALSE, artists |-> 0,
             art |-> FALSE, progress |-> 0, duration |-> 0,
             ts |-> 0, stamped |-> FALSE]

NewCell(r) == [used |-> TRUE, playing |-> r.playing, item |-> r.item,
               artists |-> r.artists, art |-> r.art,
               progress |-> r.progress, duration |-> r.duration,
               ts |-> 0, stamped |-> FALSE]

\* The report map getCurrentStatus returns: the nil map, or a map whose
\* album_art_color_rgb is the default or the artwork's colour and whose
\* progress_pct is or is not NaN.
NoReport == [kind |-> "none", color |-> "none", nan |-> FALSE]
NilMap == [kind |-> "nil", color |-> "none", nan |-> FALSE]
Report(c, n) == [kind |-> "map", color |-> c, nan |-> n]

\* ------------------------------------------- the progress arithmetic
\* Line 176: time.Since(time.Unix(int64(state.Timestamp/1000), 0)), then line
\* 179 divides by time.Millisecond. ts is state.Timestamp (ms), at is the
\* clock that time.Since reads (ms). The integer division drops the
\* milliseconds of the stamp before the subtraction.
ElapsedMs(ts, at) == at - (ts \div 1000) * 1000

\* AdjustedProgress without the clamp of lines 180-182.
AdjustedProgressUnclamped(progress, duration, elapsed) == progress + elapsed

\* Lines 179-182.
AdjustedProgress(progress, duration, elapsed) ==
    IF progress + elapsed >= duration THEN duration ELSE progress + elapsed

\* %02d of a number below 100.
Pad2(n) == IF n < 10 THEN "0" \o ToString(n) ELSE ToString(n)

\* Lines 241-243: fmt.Sprintf("%d:%02d", ms/60000, (ms/1000)%60).
MinSec(ms) == ToString(ms \div 60000) \o ":" \o Pad2((ms \div 1000) % 60)

\* Line 237: fmt.Sprintf("%.2f%%", float64(adjusted)/float64(duration)*100),
\* as the hundredths of a percent it can print: the nearest one, either
\* neighbour on a tie (the float64 quotient decides), and none for 0/0.
PctHundredths(adjusted, duration) ==
    IF duration = 0 THEN {}
    ELSE LET q == (adjusted * 10000) \div duration
             r == (adjusted * 10000) % duration
         IN  IF 2 * r < duration THEN {q}
             ELSE IF 2 * r > duration THEN {q + 1}
             ELSE {q, q + 1}

PctStr(h) == ToString(h \div 100) \o "." \o Pad2(h % 100) \o "%"

\* The records and clock readings the arithmetic is evaluated on: Progress
\* and Duration of the track, the stamp of line 141, and how long after
\* the stamp the snapshot is built.
ProgressValues == {0, 50000, 199500}
DurationValues == {0, 200000}
StampValues == {0, 1000, 1500, 1999}
DelayValues == {0, 1, 500, 10000, 200000}

\* The inputs and the outputs of one evaluation of the progress arithmetic.
NoCalc == [done |-> FALSE, progress |-> 0, duration |-> 0, ts |-> 0, at |-> 0,
           elapsed |-> 0, adjusted |-> 0, remaining |-> 0, pct |-> "",
           progress_str |-> "", duration_str |-> "", remaining_str |-> ""]

CalcInputs ==
    { [NoCalc EXCEPT !.progress = r[1], !.duration = r[2],
                     !.ts = t, !.at = t + e] :
        r \in {x \in ProgressValues \X DurationValues : x[1] <= x[2]},
        t \in StampValues, e \in DelayValues }

VARIABLES
    now,          \* the process clock, ms
    crashed,      \* the process died (an unrecovered panic or a runtime fatal)
    fatal,        \* what ended it: "none", "panic" or "maprace"
    calc,         \* one evaluation of the progress arithmetic of lines 176-243
    reportURL,    \* REPORT_URL is set
    traffic,      \* the clients of the run: "render" (requests of "/") or
                  \* "push" (websocket connections); "reporter" and
                  \* "status" in SpecReporter and SpecStatus
    mutex,        \* stateMutex: "free", "poller" or "bcast"
    currentState, \* the global: Nil or a heap cell
    heap,         \* the records allocated by the upstream client
    lastWrite,    \* the record of the poller's last completed write
    lastStart,    \* and when that write began
    ppc, pstate, pwake,          \* the poller: pc, its local state, wake-up time
    pstart,       \* when the poller's write in progress began (line 140)
    pc, grec, report,            \* broadcaster and "/" handlers: pc, the state
                                 \* argument, the report map
    seen,         \* which Timestamp store the task's read of line 176 saw
    hres,         \* how a "/" request ended
    bwake,        \* the broadcaster's wake-up time
    iterStart,    \* the registry when the range loop of the tick began
    cur,          \* the loop variable client (0 outside the loop body)
    tickSent,     \* the subscribers written in this tick
    tickPosts,    \* the webhook requests made in this tick
    postErr,      \* http.Post of this tick returned an error
    ranged,       \* this tick reached the registry test of line 281
    artFile,      \* the artwork file in imageCacheDir
    wsClients,    \* the registry
    wpc, connState, closes, dels  \* websocket handlers and their connections

vars == << now, crashed, fatal, calc, reportURL, traffic, mutex, currentState, heap,
           lastWrite, lastStart,
           ppc, pstate, pwake, pstart, pc, grec, report, seen, hres, bwake,
           iterStart, cur, tickSent, tickPosts, postErr, ranged, artFile,
           wsClients, wpc, connState, closes, dels >>

pollerVars == << ppc, pstate, pwake, pstart >>
writeVars == << lastWrite, lastStart >>
tickVars == << iterStart, cur, tickSent, tickPosts, postErr, ranged >>
wsVars == << wsClients, wpc, connState, closes, dels >>
statusVars == << pc, grec, report, seen, hres >>

\* ------------------------------------------------------------------- heap
\* The cells some pointer still reaches; the rest is garbage and is swept.
Live(cs, ps, gr, lw) == ({cs, ps, lw} \cup {gr[t] : t \in Tasks}) \ {Nil}

Sweep(h, live) == [i \in Cells |-> IF i \in live THEN h[i] ELSE FreeCell]

FreeCells == {i \in Cells : ~heap[i].used}

\* The state when the loops of main start, for the clients in kinds.
Boot(kinds, calcs) ==
    /\ now = 0
    /\ crashed = FALSE /\ fatal = "none"
    /\ calc \in calcs
    /\ reportURL \in BOOLEAN
    /\ traffic \in kinds
    /\ mutex = "free"
    /\ currentState = Nil
    /\ heap = [i \in Cells |-> FreeCell]
    /\ lastWrite = Nil /\ lastStart = 0
    /\ ppc = "query" /\ pstate = Nil /\ pwake = 0 /\ pstart = 0
    /\ pc = [t \in Tasks |-> IF t = Bcast THEN "lock" ELSE "idle"]
    /\ grec = [t \in Tasks |-> Nil]
    /\ report = [t \in Tasks |-> NoReport]
    /\ seen = [t \in Tasks |-> "none"]
    /\ hres = [h \in Reqs |-> "none"]
    /\ bwake = 0
    /\ iterStart = {} /\ cur = 0 /\ tickSent = {}
    /\ tickPosts = 0 /\ postErr = FALSE /\ ranged = FALSE
    /\ artFile = "absent"
    /\ wsClients = {}
    /\ wpc = [c \in Conns |-> "idle"]
    /\ connState = [c \in Conns |-> "none"]
    /\ closes = [c \in Conns |-> 0]
    /\ dels = [c \in Conns |-> 0]

Init == Boot({"render", "push"}, {NoCalc})

\* ------------------------------------------------------------------ clock
Tick ==
    /\ ~crashed
    /\ \E d \in TickSteps :
          /\ now + d <= MaxTime
          /\ now' = now + d
    /\ UNCHANGED << crashed, fatal, calc, reportURL, traffic, mutex, currentState, heap, writeVars,
                    pollerVars, statusVars, bwake, tickVars, artFile, wsVars >>

\* ----------------------------------------------------------------- poller
\* PollQueryOk with the published record overwritten in place.
PollQueryOkInPlace ==
    /\ ~crashed
    /\ ppc = "query"
    /\ FreeCells # {}
    /\ \E r \in UpstreamRecords :
          LET i == IF currentState # Nil THEN currentState
                   ELSE CHOOSE k \in FreeCells : \A j \in FreeCells : k <= j
          IN  /\ heap' = [heap EXCEPT ![i] = NewCell(r)]
              /\ pstate' = i
    /\ ppc' = "lock"
    /\ UNCHANGED << now, crashed, fatal, calc, reportURL, traffic, mutex,
                    currentState, writeVars, pwake, pstart, statusVars, bwake,
                    tickVars, artFile, wsVars >>

\* Line 132, err == nil: the client returns a freshly allocated record.
PollQueryOk ==
    /\ ~crashed
    /\ ppc = "query"
    /\ FreeCells # {}
    /\ \E r \in UpstreamRecords :
          LET i == CHOOSE k \in FreeCells : \A j \in FreeCells : k <= j
          IN  /\ heap' = [heap EXCEPT ![i] = NewCell(r)]
              /\ pstate' = i
    /\ ppc' = "lock"
    /\ UNCHANGED << now, crashed, fatal, calc, reportURL, traffic, mutex, currentState, writeVars,
                    pwake, pstart, statusVars, bwake, tickVars, artFile, wsVars >>

\* PollQueryFail with the cache cleared on a failed query.
PollQueryFailClears ==
    /\ ~crashed
    /\ ppc = "query"
    /\ ppc' = "backoff"
    /\ pwake' = now + BackoffInterval
    /\ currentState' = Nil
    /\ UNCHANGED << now, crashed, fatal, calc, reportURL, traffic, mutex, heap,
                    writeVars, pstate, pstart, statusVars, bwake, tickVars,
                    artFile, wsVars >>

\* Lines 133-137, err != nil: log, sleep, continue.
PollQueryFail ==
    /\ ~crashed
    /\ ppc = "query"
    /\ ppc' = "backoff"
    /\ pwake' = now + BackoffInterval
    /\ UNCHANGED << now, crashed, fatal, calc, reportURL, traffic, mutex, currentState, heap,
                    writeVars, pstate, pstart, statusVars, bwake, tickVars, artFile,
                    wsVars >>

\* Line 135 returns: the loop queries again.
PollBackoffDone ==
    /\ ~crashed
    /\ ppc = "backoff"
    /\ now >= pwake
    /\ ppc' = "query"
    /\ pwake' = 0
    /\ UNCHANGED << now, crashed, fatal, calc, reportURL, traffic, mutex, currentState, heap,
                    writeVars, pstate, pstart, statusVars, bwake, tickVars,
                    artFile, wsVars >>

\* Line 140.
PollLock ==
    /\ ~crashed
    /\ ppc = "lock"
    /\ mutex = "free"
    /\ mutex' = "poller"
    /\ ppc' = "cs"
    /\ pstart' = now
    /\ UNCHANGED << now, crashed, fatal, calc, reportURL, traffic, currentState, heap, writeVars,
                    pstate, pwake, statusVars, bwake, tickVars, artFile,
                    wsVars >>

\* PollStamp with the stamp taken in seconds instead of milliseconds.
PollStampSeconds ==
    /\ ~crashed
    /\ ppc = "cs"
    /\ ~heap[pstate].stamped
    /\ heap' = [heap EXCEPT ![pstate].ts = now \div 1000,
                            ![pstate].stamped = TRUE]
    /\ UNCHANGED << now, crashed, fatal, calc, reportURL, traffic, mutex, currentState,
                    writeVars, pollerVars, statusVars, bwake, tickVars,
                    artFile, wsVars >>

\* Line 141: state.Timestamp = time.Now().UnixNano() / int64(time.Millisecond).
\* Lines 141 and 142 are two plain stores in one critical section: they are
\* ordered for the tasks that take stateMutex, and for no other task, so a
\* reader that takes no lock may see either one first.
PollStamp ==
    /\ ~crashed
    /\ ppc = "cs"
    /\ ~heap[pstate].stamped
    /\ heap' = [heap EXCEPT ![pstate].ts = now, ![pstate].stamped = TRUE]
    /\ UNCHANGED << now, crashed, fatal, calc, reportURL, traffic, mutex, currentState, writeVars,
                    pollerVars, statusVars, bwake, tickVars, artFile, wsVars >>

\* Line 142: currentState = state.
PollPublish ==
    /\ ~crashed
    /\ ppc = "cs"
    /\ currentState # pstate
    /\ currentState' = pstate
    /\ heap' = Sweep(heap, Live(pstate, pstate, grec, lastWrite))
    /\ UNCHANGED << now, crashed, fatal, calc, reportURL, traffic, mutex, writeVars,
                    pollerVars, statusVars, bwake, tickVars, artFile, wsVars >>

\* Lines 143-146: unlock, then sleep.
PollUnlock ==
    /\ ~crashed
    /\ ppc = "cs"
    /\ heap[pstate].stamped
    /\ currentState = pstate
    /\ mutex' = "free"
    /\ lastWrite' = pstate
    /\ lastStart' = pstart
    /\ pstate' = Nil
    /\ heap' = Sweep(heap, Live(currentState, Nil, grec, pstate))
    /\ ppc' = "sleep"
    /\ pwake' = now + PollInterval
    /\ pstart' = 0
    /\ UNCHANGED << now, crashed, fatal, calc, reportURL, traffic, currentState, statusVars, bwake,
                    tickVars, artFile, wsVars >>

\* Line 146 returns.
PollWake ==
    /\ ~crashed
    /\ ppc = "sleep"
    /\ now >= pwake
    /\ ppc' = "query"
    /\ pwake' = 0
    /\ UNCHANGED << now, crashed, fatal, calc, reportURL, traffic, mutex, currentState, heap,
                    writeVars, pstate, pstart, statusVars, bwake, tickVars,
                    artFile, wsVars >>

Poller ==
    \/ PollQueryOk
    \/ PollQueryFail
    \/ PollBackoffDone
    \/ PollLock
    \/ PollStamp
    \/ PollPublish
    \/ PollUnlock
    \/ PollWake

\* ------------------------------------------------------ getCurrentStatus
\* Where getCurrentStatus returns to: sendCurrentStatus line 263 in the
\* broadcaster, line 98 in the handler of "/".
Ret(t) == IF t = Bcast THEN "marshal" ELSE "assign"

\* A run-time panic in task t. The broadcaster is a bare goroutine: the
\* process dies. net/http recovers a handler's panic: the request is aborted
\* and no response is written.
PanicIn(t) ==
    IF t = Bcast
    THEN /\ crashed' = TRUE
         /\ fatal' = "panic"
         /\ UNCHANGED << pc, hres >>
    ELSE /\ UNCHANGED << crashed, fatal >>
         /\ pc' = [pc EXCEPT ![t] = "done"]
         /\ hres' = [hres EXCEPT ![t] = "panic"]

\* Lines 229-251: the report map. Item.Artists[0] panics on an empty list;
\* progress_pct is 0/0 = NaN when Item.Duration is 0 (adjustedProgress is then
\* clamped to 0 by line 180).
BuildReport(t, color) ==
    IF heap[grec[t]].artists = 0
    THEN /\ PanicIn(t)
         /\ UNCHANGED report
    ELSE /\ report' = [report EXCEPT
                         ![t] = Report(color, heap[grec[t]].duration = 0)]
         /\ pc' = [pc EXCEPT ![t] = Ret(t)]
         /\ UNCHANGED << crashed, fatal, hres >>

\* Lines 171-187: the nil check, the read of state.Timestamp, the dereference
\* of state.Item, the artwork URL.
GStatus(t) ==
    /\ ~crashed
    /\ pc[t] = "status"
    /\ IF grec[t] = Nil
       THEN /\ report' = [report EXCEPT ![t] = NilMap]
            /\ pc' = [pc EXCEPT ![t] = Ret(t)]
            /\ UNCHANGED << crashed, fatal, hres, seen >>
       ELSE /\ seen' = [seen EXCEPT ![t] = IF heap[grec[t]].stamped
                                           THEN "stamp" ELSE "upstream"]
            /\ IF ~heap[grec[t]].item
               THEN /\ PanicIn(t)
                    /\ UNCHANGED report
               ELSE /\ pc' = [pc EXCEPT ![t] = IF heap[grec[t]].art
                                               THEN "head" ELSE "report"]
                    /\ UNCHANGED << crashed, fatal, hres, report >>
    /\ UNCHANGED << now, calc, reportURL, traffic, mutex, currentState, heap, writeVars,
                    pollerVars, grec, bwake, tickVars, artFile, wsVars >>

\* downloadAlbumArt, lines 301-328: http.Head, then os.Stat of the cache
\* file. An error of Head or a Content-Type other than image/jpeg returns the
\* empty filename; a file that exists is a cache hit.
GHead(t) ==
    /\ ~crashed
    /\ pc[t] = "head"
    /\ \E ok \in BOOLEAN :
          pc' = [pc EXCEPT ![t] = IF ~ok THEN "report"
                                  ELSE IF artFile # "absent" THEN "decode"
                                  ELSE "get"]
    /\ UNCHANGED << now, crashed, fatal, calc, reportURL, traffic, mutex, currentState, heap,
                    writeVars, pollerVars, grec, report, seen, hres, bwake,
                    tickVars, artFile, wsVars >>

\* GGet with a failed download ending the task.
GGetFailAborts(t) ==
    /\ ~crashed
    /\ pc[t] = "get"
    /\ \E ok \in BOOLEAN :
          IF ok
          THEN /\ pc' = [pc EXCEPT ![t] = "copy"]
               /\ artFile' = "partial"
               /\ UNCHANGED << crashed, fatal, hres >>
          ELSE /\ PanicIn(t)
               /\ UNCHANGED artFile
    /\ UNCHANGED << now, calc, reportURL, traffic, mutex, currentState, heap,
                    writeVars, pollerVars, grec, report, seen, bwake,
                    tickVars, wsVars >>

\* Lines 330-350: http.Get, then os.Create, which makes the file or truncates
\* the one that exists. On an error the filename of line 322 is returned.
GGet(t) ==
    /\ ~crashed
    /\ pc[t] = "get"
    /\ \E ok \in BOOLEAN :
          /\ pc' = [pc EXCEPT ![t] = IF ok THEN "copy" ELSE "decode"]
          /\ artFile' = IF ok THEN "partial" ELSE artFile
    /\ UNCHANGED << now, crashed, fatal, calc, reportURL, traffic, mutex, currentState, heap,
                    writeVars, pollerVars, grec, report, seen, hres, bwake,
                    tickVars, wsVars >>

\* Lines 352-359: io.Copy of the body into the file.
GCopy(t) ==
    /\ ~crashed
    /\ pc[t] = "copy"
    /\ \E ok \in BOOLEAN :
          artFile' = IF ok THEN "complete" ELSE artFile
    /\ pc' = [pc EXCEPT ![t] = "decode"]
    /\ UNCHANGED << now, crashed, fatal, calc, reportURL, traffic, mutex, currentState, heap,
                    writeVars, pollerVars, grec, report, seen, hres, bwake,
                    tickVars, wsVars >>

\* Lines 193-251 with a filename: extractColors decodes the file (only a
\* complete file can decode), the first colour is taken, the map is built.
GDecode(t) ==
    /\ ~crashed
    /\ pc[t] = "decode"
    /\ \E ok \in (IF artFile = "complete" THEN BOOLEAN ELSE {FALSE}) :
          BuildReport(t, IF ok THEN "art" ELSE "default")
    /\ UNCHANGED << now, calc, reportURL, traffic, mutex, currentState, heap,
                    writeVars, pollerVars, grec, seen, bwake,
                    tickVars, artFile, wsVars >>

\* Lines 199-251 without a filename: the default colour.
GReport(t) ==
    /\ ~crashed
    /\ pc[t] = "report"
    /\ BuildReport(t, "default")
    /\ UNCHANGED << now, calc, reportURL, traffic, mutex, currentState, heap,
                    writeVars, pollerVars, grec, seen, bwake,
                    tickVars, artFile, wsVars >>

Status(t) ==
    \/ GStatus(t)
    \/ GHead(t)
    \/ GGet(t)
    \/ GCopy(t)
    \/ GDecode(t)
    \/ GReport(t)

\* ------------------------------------------------------- handler of "/"
\* A request arrives: net/http runs the handler of line 96 on a new
\* goroutine, the lowest one of the model that is not running; the locals of
\* the request it ran before are garbage.
HttpRequest(h) ==
    /\ ~crashed
    /\ traffic = "render"
    /\ pc[h] \in {"idle", "done"}
    /\ \A g \in Reqs : g < h => pc[g] \notin {"idle", "done"}
    /\ pc' = [pc EXCEPT ![h] = "read"]
    /\ grec' = [grec EXCEPT ![h] = Nil]
    /\ report' = [report EXCEPT ![h] = NoReport]
    /\ seen' = [seen EXCEPT ![h] = "none"]
    /\ hres' = [hres EXCEPT ![h] = "none"]
    /\ heap' = Sweep(heap, Live(currentState, pstate, grec', lastWrite))
    /\ UNCHANGED << now, crashed, fatal, calc, reportURL, traffic, mutex, currentState,
                    writeVars, pollerVars, bwake, tickVars, artFile, wsVars >>

\* Line 97: the argument currentState is read; stateMutex is not taken.
HttpRead(h) ==
    /\ ~crashed
    /\ pc[h] = "read"
    /\ grec' = [grec EXCEPT ![h] = currentState]
    /\ pc' = [pc EXCEPT ![h] = "status"]
    /\ UNCHANGED << now, crashed, fatal, calc, reportURL, traffic, mutex, currentState, heap,
                    writeVars, pollerVars, report, seen, hres, bwake,
                    tickVars, artFile, wsVars >>

\* Lines 98-104: state["httpPort"] = httpPort panics on the nil map (an
\* assignment to an entry of a nil map); otherwise the template is executed
\* into the response, and an error of Execute is answered with http.Error.
HttpRespond(h) ==
    /\ ~crashed
    /\ pc[h] = "assign"
    /\ IF report[h].kind = "nil"
       THEN PanicIn(h)
       ELSE /\ pc' = [pc EXCEPT ![h] = "done"]
            /\ \E r \in {"ok", "error"} : hres' = [hres EXCEPT ![h] = r]
            /\ UNCHANGED << crashed, fatal >>
    /\ UNCHANGED << now, calc, reportURL, traffic, mutex, currentState, heap,
                    writeVars, pollerVars, grec, report, seen, bwake,
                    tickVars, artFile, wsVars >>

Http(h) ==
    \/ HttpRequest(h)
    \/ HttpRead(h)
    \/ HttpRespond(h)

\* ------------------------------------------------------------ broadcaster
\* Line 121.
BcastLock ==
    /\ ~crashed
    /\ pc[Bcast] = "lock"
    /\ mutex = "free"
    /\ mutex' = "bcast"
    /\ pc' = [pc EXCEPT ![Bcast] = "check"]
    /\ UNCHANGED << now, crashed, fatal, calc, reportURL, traffic, currentState, heap,
                    writeVars, pollerVars, grec, report, seen, hres, bwake,
                    tickVars, artFile, wsVars >>

\* BcastCheck without the test of currentState.Playing.
BcastCheckAnyRecord ==
    /\ ~crashed
    /\ pc[Bcast] = "check"
    /\ IF currentState # Nil
       THEN /\ grec' = [grec EXCEPT ![Bcast] = currentState]
            /\ pc' = [pc EXCEPT ![Bcast] = "status"]
       ELSE /\ pc' = [pc EXCEPT ![Bcast] = "unlock"]
            /\ UNCHANGED grec
    /\ UNCHANGED << now, crashed, fatal, calc, reportURL, traffic, mutex, currentState,
                    heap, writeVars, pollerVars, report, seen, hres, bwake,
                    tickVars, artFile, wsVars >>

\* Lines 122-124 and 254-260: the guard of the tick, then sendCurrentStatus
\* calls getCurrentStatus on the record.
BcastCheck ==
    /\ ~crashed
    /\ pc[Bcast] = "check"
    /\ IF currentState # Nil /\ heap[currentState].playing
       THEN /\ grec' = [grec EXCEPT ![Bcast] = currentState]
            /\ pc' = [pc EXCEPT ![Bcast] = "status"]
       ELSE /\ pc' = [pc EXCEPT ![Bcast] = "unlock"]
            /\ UNCHANGED grec
    /\ UNCHANGED << now, crashed, fatal, calc, reportURL, traffic, mutex, currentState, heap,
                    writeVars, pollerVars, report, seen, hres, bwake,
                    tickVars, artFile, wsVars >>

\* BcastMarshal with the error of json.Marshal ignored.
BcastMarshalIgnoresError ==
    /\ ~crashed
    /\ pc[Bcast] = "marshal"
    /\ pc' = [pc EXCEPT ![Bcast] = IF reportURL THEN "post" ELSE "range"]
    /\ UNCHANGED << now, crashed, fatal, calc, reportURL, traffic, mutex,
                    currentState, heap, writeVars, pollerVars, grec, report,
                    seen, hres, bwake, tickVars, artFile, wsVars >>

\* Lines 262-270: json.Marshal rejects a NaN (UnsupportedValueError) and the
\* tick returns; otherwise the webhook is next when reportURL is set.
BcastMarshal ==
    /\ ~crashed
    /\ pc[Bcast] = "marshal"
    /\ pc' = [pc EXCEPT ![Bcast] = IF report[Bcast].nan THEN "unlock"
                                   ELSE IF reportURL THEN "post"
                                   ELSE "range"]
    /\ UNCHANGED << now, crashed, fatal, calc, reportURL, traffic, mutex, currentState, heap,
                    writeVars, pollerVars, grec, report, seen, hres, bwake,
                    tickVars, artFile, wsVars >>

\* BcastPost with the tick abandoned when http.Post fails.
BcastPostFailStops ==
    /\ ~crashed
    /\ pc[Bcast] = "post"
    /\ tickPosts' = tickPosts + 1
    /\ \E ok \in BOOLEAN :
          /\ postErr' = ~ok
          /\ pc' = [pc EXCEPT ![Bcast] = IF ok THEN "range" ELSE "unlock"]
    /\ UNCHANGED << now, crashed, fatal, calc, reportURL, traffic, mutex,
                    currentState, heap, writeVars, pollerVars, grec, report,
                    seen, hres, bwake, iterStart, cur, tickSent, ranged,
                    artFile, wsVars >>

\* Lines 271-277: http.Post; its error is printed and the function goes on.
BcastPost ==
    /\ ~crashed
    /\ pc[Bcast] = "post"
    /\ tickPosts' = tickPosts + 1
    /\ \E ok \in BOOLEAN : postErr' = ~ok
    /\ pc' = [pc EXCEPT ![Bcast] = "range"]
    /\ UNCHANGED << now, crashed, fatal, calc, reportURL, traffic, mutex, currentState, heap,
                    writeVars, pollerVars, grec, report, seen, hres, bwake,
                    iterStart, cur, tickSent, ranged, artFile, wsVars >>

\* Lines 281-282: len(wsClients), then the range loop begins.
BcastRange ==
    /\ ~crashed
    /\ pc[Bcast] = "range"
    /\ ranged' = TRUE
    /\ IF wsClients = {}
       THEN /\ pc' = [pc EXCEPT ![Bcast] = "unlock"]
            /\ UNCHANGED iterStart
       ELSE /\ pc' = [pc EXCEPT ![Bcast] = "iter"]
            /\ iterStart' = wsClients
    /\ UNCHANGED << now, crashed, fatal, calc, reportURL, traffic, mutex, currentState, heap,
                    writeVars, pollerVars, grec, report, seen, hres, bwake,
                    cur, tickSent, tickPosts, postErr, artFile, wsVars >>

\* The entries the range loop has not produced yet: an entry is produced once,
\* a written one stays in the map and an entry whose write failed is deleted.
Unvisited == wsClients \ tickSent

\* Line 282, the next element: an entry not yet produced. An entry removed
\* before it is reached is not produced.
BcastNext ==
    /\ ~crashed
    /\ pc[Bcast] = "iter"
    /\ \E c \in Unvisited :
          /\ cur' = c
          /\ pc' = [pc EXCEPT ![Bcast] = "write"]
    /\ UNCHANGED << now, crashed, fatal, calc, reportURL, traffic, mutex, currentState, heap,
                    writeVars, pollerVars, grec, report, seen, hres, bwake,
                    iterStart, tickSent, tickPosts, postErr, ranged, artFile,
                    wsVars >>

\* Line 282, the end of the loop: every entry that was there when the loop
\* began has been produced or removed. An entry added during the iteration
\* may be produced or skipped.
BcastRangeEnd ==
    /\ ~crashed
    /\ pc[Bcast] = "iter"
    /\ Unvisited \cap iterStart = {}
    /\ pc' = [pc EXCEPT ![Bcast] = "unlock"]
    /\ UNCHANGED << now, crashed, fatal, calc, reportURL, traffic, mutex, currentState, heap,
                    writeVars, pollerVars, grec, report, seen, hres, bwake,
                    tickVars, artFile, wsVars >>

\* Line 283, err == nil. A write to a connection the peer has left may still
\* be accepted by the socket.
BcastWriteOk ==
    /\ ~crashed
    /\ pc[Bcast] = "write"
    /\ connState[cur] \in {"open", "broken"}
    /\ tickSent' = tickSent \cup {cur}
    /\ cur' = 0
    /\ pc' = [pc EXCEPT ![Bcast] = "iter"]
    /\ UNCHANGED << now, crashed, fatal, calc, reportURL, traffic, mutex, currentState, heap,
                    writeVars, pollerVars, grec, report, seen, hres, bwake,
                    iterStart, tickPosts, postErr, ranged, artFile, wsVars >>

\* BcastWriteFail with the loop left on the first failed write.
BcastWriteFailBreaks ==
    /\ ~crashed
    /\ pc[Bcast] = "write"
    /\ connState[cur] \in {"broken", "closed"}
    /\ connState' = [connState EXCEPT ![cur] = "closed"]
    /\ closes' = [closes EXCEPT ![cur] = @ + 1]
    /\ wsClients' = wsClients \ {cur}
    /\ dels' = [dels EXCEPT ![cur] = @ + 1]
    /\ cur' = 0
    /\ pc' = [pc EXCEPT ![Bcast] = "unlock"]
    /\ UNCHANGED << now, crashed, fatal, calc, reportURL, traffic, mutex, currentState,
                    heap, writeVars, pollerVars, grec, report, seen, hres,
                    bwake, iterStart, tickSent, tickPosts, postErr, ranged,
                    artFile, wpc >>

\* Lines 284-288, err != nil: client.Close(), delete(wsClients, client), and
\* the loop goes on.
BcastWriteFail ==
    /\ ~crashed
    /\ pc[Bcast] = "write"
    /\ connState[cur] \in {"broken", "closed"}
    /\ connState' = [connState EXCEPT ![cur] = "closed"]
    /\ closes' = [closes EXCEPT ![cur] = @ + 1]
    /\ wsClients' = wsClients \ {cur}
    /\ dels' = [dels EXCEPT ![cur] = @ + 1]
    /\ cur' = 0
    /\ pc' = [pc EXCEPT ![Bcast] = "iter"]
    /\ UNCHANGED << now, crashed, fatal, calc, reportURL, traffic, mutex, currentState, heap,
                    writeVars, pollerVars, grec, report, seen, hres, bwake,
                    iterStart, tickSent, tickPosts, postErr, ranged, artFile,
                    wpc >>

\* Lines 125-126: unlock, then sleep one second.
BcastUnlock ==
    /\ ~crashed
    /\ pc[Bcast] = "unlock"
    /\ mutex' = "free"
    /\ pc' = [pc EXCEPT ![Bcast] = "sleep"]
    /\ bwake' = now + BroadcastInterval
    /\ grec' = [grec EXCEPT ![Bcast] = Nil]
    /\ report' = [report EXCEPT ![Bcast] = NoReport]
    /\ seen' = [seen EXCEPT ![Bcast] = "none"]
    /\ iterStart' = {} /\ cur' = 0 /\ tickSent' = {}
    /\ tickPosts' = 0 /\ postErr' = FALSE /\ ranged' = FALSE
    /\ UNCHANGED << now, crashed, fatal, calc, reportURL, traffic, currentState, heap,
                    writeVars, pollerVars, hres, artFile, wsVars >>

\* Line 126 returns.
BcastWake ==
    /\ ~crashed
    /\ pc[Bcast] = "sleep"
    /\ now >= bwake
    /\ pc' = [pc EXCEPT ![Bcast] = "lock"]
    /\ bwake' = 0
    /\ UNCHANGED << now, crashed, fatal, calc, reportURL, traffic, mutex, currentState, heap,
                    writeVars, pollerVars, grec, report, seen, hres,
                    tickVars, artFile, wsVars >>

Broadcaster ==
    \/ BcastLock
    \/ BcastCheck
    \/ BcastMarshal
    \/ BcastPost
    \/ BcastRange
    \/ BcastNext
    \/ BcastRangeEnd
    \/ BcastWriteOk
    \/ BcastWriteFail
    \/ BcastUnlock
    \/ BcastWake

\* ----------------------------------------------------- websocket handlers
\* Connections are numbered in the order in which they arrive.
\* Lines 151-156: the upgrade succeeds and the connection is open.
WsUpgradeOk(c) ==
    /\ ~crashed
    /\ traffic = "push"
    /\ wpc[c] = "idle"
    /\ \A d \in Conns : d < c => wpc[d] # "idle"
    /\ wpc' = [wpc EXCEPT ![c] = "add"]
    /\ connState' = [connState EXCEPT ![c] = "open"]
    /\ UNCHANGED << now, crashed, fatal, calc, reportURL, traffic, mutex, currentState, heap,
                    writeVars, pollerVars, statusVars, bwake, tickVars,
                    artFile, wsClients, closes, dels >>

\* Lines 151-155: the upgrade fails and the handler returns.
WsUpgradeFail(c) ==
    /\ ~crashed
    /\ traffic = "push"
    /\ wpc[c] = "idle"
    /\ \A d \in Conns : d < c => wpc[d] # "idle"
    /\ wpc' = [wpc EXCEPT ![c] = "done"]
    /\ UNCHANGED << now, crashed, fatal, calc, reportURL, traffic, mutex, currentState, heap,
                    writeVars, pollerVars, statusVars, bwake, tickVars,
                    artFile, wsClients, connState, closes, dels >>

\* Line 158: wsClients[conn] = true; no lock is taken.
WsAdd(c) ==
    /\ ~crashed
    /\ wpc[c] = "add"
    /\ wsClients' = wsClients \cup {c}
    /\ wpc' = [wpc EXCEPT ![c] = "read"]
    /\ UNCHANGED << now, crashed, fatal, calc, reportURL, traffic, mutex, currentState, heap,
                    writeVars, pollerVars, statusVars, bwake, tickVars,
                    artFile, connState, closes, dels >>

\* The peer goes away, or the network fails.
PeerLost(c) ==
    /\ ~crashed
    /\ connState[c] = "open"
    /\ connState' = [connState EXCEPT ![c] = "broken"]
    /\ UNCHANGED << now, crashed, fatal, calc, reportURL, traffic, mutex, currentState, heap,
                    writeVars, pollerVars, statusVars, bwake, tickVars,
                    artFile, wsClients, wpc, closes, dels >>

\* Lines 160-163: ReadMessage returns an error once the connection is lost
\* or closed; a message that arrives is dropped and the loop reads again.
WsReadErr(c) ==
    /\ ~crashed
    /\ wpc[c] = "read"
    /\ connState[c] \in {"broken", "closed"}
    /\ wpc' = [wpc EXCEPT ![c] = "del"]
    /\ UNCHANGED << now, crashed, fatal, calc, reportURL, traffic, mutex, currentState, heap,
                    writeVars, pollerVars, statusVars, bwake, tickVars,
                    artFile, wsClients, connState, closes, dels >>

\* Lines 164-165: delete(wsClients, conn); no lock is taken.
WsDelete(c) ==
    /\ ~crashed
    /\ wpc[c] = "del"
    /\ wsClients' = wsClients \ {c}
    /\ dels' = [dels EXCEPT ![c] = @ + 1]
    /\ wpc' = [wpc EXCEPT ![c] = "close"]
    /\ UNCHANGED << now, crashed, fatal, calc, reportURL, traffic, mutex, currentState, heap,
                    writeVars, pollerVars, statusVars, bwake, tickVars,
                    artFile, connState, closes >>

\* Line 156, deferred: conn.Close() as the handler returns.
WsClose(c) ==
    /\ ~crashed
    /\ wpc[c] = "close"
    /\ connState' = [connState EXCEPT ![c] = "closed"]
    /\ closes' = [closes EXCEPT ![c] = @ + 1]
    /\ wpc' = [wpc EXCEPT ![c] = "done"]
    /\ UNCHANGED << now, crashed, fatal, calc, reportURL, traffic, mutex, currentState, heap,
                    writeVars, pollerVars, statusVars, bwake, tickVars,
                    artFile, wsClients, dels >>

Ws(c) ==
    \/ WsUpgradeOk(c)
    \/ WsUpgradeFail(c)
    \/ WsAdd(c)
    \/ PeerLost(c)
    \/ WsReadErr(c)
    \/ WsDelete(c)
    \/ WsClose(c)

\* ------------------------------------------------- the registry's data race
\* The handlers about to write the map (lines 158, 164) and whether the
\* broadcaster is inside a map operation (the iterator of line 282, the
\* delete of line 287).
RegistryWriters == {c \in Conns : wpc[c] \in {"add", "del"}}

BcastInMap ==
    \/ pc[Bcast] = "iter"
    \/ pc[Bcast] = "write" /\ connState[cur] # "open"

\* wsClients is a plain map written under no common lock. Two operations that
\* run at once, one of them a write, are a data race; one outcome of it is
\* the runtime's fatal error "concurrent map writes" / "concurrent map
\* iteration and map write", which ends the process. The other outcome, the
\* operations taking effect one after the other, is the interleaving itself.
MapRaceFatal ==
    /\ ~crashed
    /\ \/ Cardinality(RegistryWriters) >= 2
       \/ RegistryWriters # {} /\ BcastInMap
    /\ crashed' = TRUE
    /\ fatal' = "maprace"
    /\ UNCHANGED << now, calc, reportURL, traffic, mutex, currentState, heap,
                    writeVars, pollerVars, statusVars, bwake, tickVars,
                    artFile, wsVars >>

\* ---------------------------------------------------------- specification
Next ==
    \/ Tick
    \/ Poller
    \/ Broadcaster
    \/ \E t \in Tasks : Status(t)
    \/ \E h \in Reqs : Http(h)
    \/ \E c \in Conns : Ws(c)
    \/ MapRaceFatal

Spec == Init /\ [][Next]_vars

\* ------------------------------------------------------- fair scheduling
\* The steps that need only the Go scheduler: a runnable goroutine runs.
\* The steps left out wait for a remote party (the upstream query, http.Head,
\* http.Get and the copy of its body, http.Post, WriteMessage, the peer of a
\* websocket, the arrival of a request): the default http client and the
\* websocket connection have no deadline set, so nothing says they return.
PollerLocal ==
    \/ PollBackoffDone
    \/ PollStamp
    \/ PollPublish
    \/ PollUnlock
    \/ PollWake

BcastLocal ==
    \/ BcastLock
    \/ BcastCheck
    \/ GStatus(Bcast)
    \/ GDecode(Bcast)
    \/ GReport(Bcast)
    \/ BcastMarshal
    \/ BcastRange
    \/ BcastNext
    \/ BcastRangeEnd
    \/ BcastUnlock
    \/ BcastWake

\* sync.Mutex hands the lock to a waiter that has waited long (starvation
\* mode): the poller's Lock is strongly fair.
FairSpec ==
    /\ Spec
    /\ WF_vars(Tick)
    /\ WF_vars(PollerLocal)
    /\ SF_vars(PollLock)
    /\ WF_vars(BcastLocal)

\* ------------------------------------- the second revision (lines 561-914)
\* The reporter: the same poll loop (lines 667-684) and broadcast goroutine
\* (lines 656-665), no "/" render and no websockets; its sendCurrentStatus
\* (lines 687-783) holds the code of getCurrentStatus inline and then
\* marshals and posts.
InitReporter == Boot({"reporter"}, {NoCalc})

\* Lines 768-773: json.Marshal; on an error the tick returns.
RepMarshal ==
    /\ ~crashed
    /\ traffic = "reporter"
    /\ pc[Bcast] = "marshal"
    /\ pc' = [pc EXCEPT ![Bcast] = IF report[Bcast].nan THEN "unlock"
                                   ELSE "post"]
    /\ UNCHANGED << now, crashed, fatal, calc, reportURL, traffic, mutex,
                    currentState, heap, writeVars, pollerVars, grec, report,
                    seen, hres, bwake, tickVars, artFile, wsVars >>

\* Lines 775-782: http.Post(reportURL, ...), whatever reportURL holds.
RepPost ==
    /\ ~crashed
    /\ traffic = "reporter"
    /\ pc[Bcast] = "post"
    /\ tickPosts' = tickPosts + 1
    /\ \E ok \in (IF reportURL THEN BOOLEAN ELSE {FALSE}) : postErr' = ~ok
    /\ pc' = [pc EXCEPT ![Bcast] = "unlock"]
    /\ UNCHANGED << now, crashed, fatal, calc, reportURL, traffic, mutex,
                    currentState, heap, writeVars, pollerVars, grec, report,
                    seen, hres, bwake, iterStart, cur, tickSent, ranged,
                    artFile, wsVars >>

NextReporter ==
    \/ Tick
    \/ Poller
    \/ BcastLock
    \/ BcastCheck
    \/ Status(Bcast)
    \/ RepMarshal
    \/ RepPost
    \/ BcastUnlock
    \/ BcastWake

SpecReporter == InitReporter /\ [][NextReporter]_vars

\* ------------------------------ the progress arithmetic, on its own inputs
InitStatus == Boot({"status"}, CalcInputs)

\* Lines 176-182 and 236-243 of getCurrentStatus on the record and the clock
\* reading of calc.
CalcStatus ==
    /\ traffic = "status"
    /\ ~calc.done
    /\ LET el == ElapsedMs(calc.ts, calc.at)
           adj == AdjustedProgress(calc.progress, calc.duration, el)
           hs == PctHundredths(adj, calc.duration)
       IN  \E p \in (IF hs = {} THEN {"NaN%"} ELSE {PctStr(h) : h \in hs}) :
              calc' = [calc EXCEPT
                         !.done = TRUE,
                         !.elapsed = el,
                         !.adjusted = adj,
                         !.remaining = calc.duration - adj,
                         !.pct = p,
                         !.progress_str = MinSec(adj),
                         !.duration_str = MinSec(calc.duration),
                         !.remaining_str = MinSec(calc.duration - adj)]
    /\ UNCHANGED << now, crashed, fatal, reportURL, traffic, mutex,
                    currentState, heap, writeVars, pollerVars, statusVars,
                    bwake, tickVars, artFile, wsVars >>

NextStatus == CalcStatus

SpecStatus == InitStatus /\ [][NextStatus]_vars

\* ------------------------------------- two snapshots of one playing track
\* One track plays without a seek or a pause. A poll stamps a record at ts
\* with the progress the upstream reports; the next poll, gap ms later,
\* stamps a record whose progress is gap ms further (not beyond the
\* duration). A snapshot is built at the clock reading first from the
\* earlier record, and another at second >= first, from the same record or,
\* when the write of line 142 came in between, from the later one.
GapValues == {5000, 5001, 5500}
FirstDelays == {0, 1000}
SecondDelays == {0, 1, 1000}

SeqInputs ==
    { [stage |-> 0, progress |-> p, duration |-> 200000, ts |-> t,
       gap |-> g, first |-> t + d, second |-> t + d + e, replaced |-> r,
       s1 |-> 0, s2 |-> 0] :
        p \in {50000, 199000}, t \in StampValues, g \in GapValues,
        d \in FirstDelays \cup GapValues,
        e \in SecondDelays, r \in BOOLEAN }

\* The earlier snapshot is built before the write of the later record, and
\* a snapshot from the later record after it.
InitProgress ==
    Boot({"progress"},
         {c \in SeqInputs : /\ c.first <= c.ts + c.gap
                            /\ c.replaced => c.second >= c.ts + c.gap})

\* Lines 176-182 on the earlier record at the clock reading first.
SnapshotFirst ==
    /\ traffic = "progress"
    /\ calc.stage = 0
    /\ calc' = [calc EXCEPT
                  !.stage = 1,
                  !.s1 = AdjustedProgress(calc.progress, calc.duration,
                                          ElapsedMs(calc.ts, calc.first))]
    /\ UNCHANGED << now, crashed, fatal, reportURL, traffic, mutex,
                    currentState, heap, writeVars, pollerVars, statusVars,
                    bwake, tickVars, artFile, wsVars >>

\* Lines 176-182 at the clock reading second, on the record then cached.
SnapshotSecond ==
    /\ traffic = "progress"
    /\ calc.stage = 1
    /\ LET p == IF calc.replaced
                THEN AdjustedProgress(calc.progress, calc.duration, calc.gap)
                ELSE calc.progress
           t == IF calc.replaced THEN calc.ts + calc.gap ELSE calc.ts
       IN  calc' = [calc EXCEPT
                      !.stage = 2,
                      !.s2 = AdjustedProgress(p, calc.duration,
                                              ElapsedMs(t, calc.second))]
    /\ UNCHANGED << now, crashed, fatal, reportURL, traffic, mutex,
                    currentState, heap, writeVars, pollerVars, statusVars,
                    bwake, tickVars, artFile, wsVars >>

NextProgress ==
    \/ SnapshotFirst
    \/ SnapshotSecond

SpecProgress == InitProgress /\ [][NextProgress]_vars

\* --------------------------------------------- the text colour (377-423)
\* Colours are <<R, G, B>> with channels 0..255. The float64 values of the
\* code are kept as scaled integers: a linear channel in 1/10000, a
\* luminance in 1/1000000, a contrast ratio in 1/1000.
Channels == {0, 10, 11, 117, 128, 235, 236, 248, 255}

\* Lines 387-392 on c/255: the linear branch for c/255 <= 0.03928, else
\* math.Pow((c/255+0.055)/1.055, 2.4), tabulated for the channels used.
sRGBToLinear(c) ==
    IF c * 100000 <= 3928 * 255
    THEN (c * 1000000 + 164730) \div 329460
    ELSE CASE c = 11 -> 33
           [] c = 117 -> 1779
           [] c = 128 -> 2159
           [] c = 235 -> 8308
           [] c = 236 -> 8388
           [] c = 248 -> 9387
           [] c = 255 -> 10000

\* Lines 377-385.
relativeLuminance(c) ==
    (2126 * sRGBToLinear(c[1]) + 7152 * sRGBToLinear(c[2])
       + 722 * sRGBToLinear(c[3])) \div 100

\* Lines 394-402: the lighter luminance goes on top.
calculateContrastRatio(l1, l2) ==
    LET hi == IF l1 < l2 THEN l2 ELSE l1
        lo == IF l1 < l2 THEN l1 ELSE l2
    IN  ((hi + 50000) * 1000) \div (lo + 50000)

\* Lines 404-411.
calculateColorContrast(c1, c2) ==
    calculateContrastRatio(relativeLuminance(c1), relativeLuminance(c2))

\* provideTextColor with the candidate of the lower contrast returned.
provideTextColorLower(bgColor) ==
    IF calculateColorContrast(bgColor, <<0, 0, 0>>)
         < calculateColorContrast(bgColor, <<255, 255, 255>>)
    THEN <<0, 0, 0>>
    ELSE <<255, 255, 255>>

\* Lines 413-423.
provideTextColor(bgColor) ==
    IF calculateColorContrast(bgColor, <<0, 0, 0>>)
         > calculateColorContrast(bgColor, <<255, 255, 255>>)
    THEN <<0, 0, 0>>
    ELSE <<255, 255, 255>>

\* The dominant colours provideTextColor is called on (line 216), and the
\* results of two calls on the same colour.
ColorInputs ==
    { [calls |-> 0, bg |-> <<r, g, b>>, first |-> <<>>, second |-> <<>>] :
        r \in Channels, g \in Channels, b \in Channels }

InitTextColor == Boot({"textcolor"}, ColorInputs)

\* Line 216: one call of provideTextColor on the dominant colour.
CallProvideTextColor ==
    /\ traffic = "textcolor"
    /\ calc.calls < 2
    /\ calc' = IF calc.calls = 0
               THEN [calc EXCEPT !.calls = 1,
                                 !.first = provideTextColor(calc.bg)]
               ELSE [calc EXCEPT !.calls = 2,
                                 !.second = provideTextColor(calc.bg)]
    /\ UNCHANGED << now, crashed, fatal, reportURL, traffic, mutex,
                    currentState, heap, writeVars, pollerVars, statusVars,
                    bwake, tickVars, artFile, wsVars >>

NextTextColor == CallProvideTextColor

SpecTextColor == InitTextColor /\ [][NextTextColor]_vars

\* ================================================================= claims
\* The pcs at which a task performs network or file I/O (http.Head, http.Get,
\* io.Copy of the response body, http.Post, WriteMessage) and at which it
\* computes the palette (extractColors).
IOPcs == {"head", "get", "copy", "post", "write"}
PalettePcs == {"decode"}

\* The pcs of the broadcaster inside sendCurrentStatus.
SendPcs == {"status", "head", "get", "copy", "decode", "report", "marshal",
            "post", "range", "iter", "write"}

\* The broadcaster is between the start and the end of the range loop.
BcastIterating == pc[Bcast] \in {"iter", "write"}

\* Task t reads currentState in this step.
ReadStep(t) ==
    IF t = Bcast
    THEN pc[t] = "check" /\ pc'[t] = "status"
    ELSE pc[t] = "read" /\ pc'[t] = "status"

\* Task t holds stateMutex. Of the tasks that run getCurrentStatus only the
\* broadcaster ever locks it (line 121); the handler of "/" has no Lock call.
Holds(t) == t = Bcast /\ mutex = "bcast"

\* Task t is at its access to currentState: line 122 in the broadcaster,
\* line 97 in the handler of "/".
AtCacheAccess(t) == pc[t] = (IF t = Bcast THEN "check" ELSE "read")

\* C1: every access to currentState (the poller's write, the broadcaster's
\* read, the read of a "/" request) is made by a task that holds stateMutex.
C1_EveryAccessLocked ==
    /\ ppc = "cs" => mutex = "poller"
    /\ \A t \in Tasks : AtCacheAccess(t) => Holds(t)

\* C2: the registry is never accessed by two tasks at once: no handler is at
\* its add or delete while the broadcaster iterates, and no two handlers are
\* at an add or delete together.
C2_RegistryExclusive ==
    Cardinality(RegistryWriters) + (IF BcastIterating THEN 1 ELSE 0) <= 1

\* C3: no network I/O and no palette computation happens while stateMutex is
\* held.
C3_NoIOUnderLock ==
    /\ mutex = "bcast" => pc[Bcast] \notin (IOPcs \cup PalettePcs)
    /\ mutex = "poller" => ppc = "cs"

\* C4: a subscriber is removed once: its registry delete and the Close of its
\* connection are each performed at most one time.
C4_RemovedOnce ==
    \A c \in Conns : closes[c] <= 1 /\ dels[c] <= 1

\* C5: a failed upstream query leaves the cache as it was (the pointer, the
\* record and its Timestamp), the cache is never cleared once set, and the
\* poller queries again after BackoffInterval and not before.
C5_FailedPollKeepsCache ==
    [][ /\ (ppc = "query" /\ ppc' = "backoff") =>
              /\ currentState' = currentState
              /\ heap' = heap
              /\ pwake' = now + BackoffInterval
        /\ (ppc = "backoff" /\ ppc' # "backoff") =>
              /\ ppc' = "query"
              /\ now >= pwake
              /\ currentState' = currentState
        /\ currentState # Nil => currentState' # Nil ]_vars

\* A failed query with a record cached.
C5_Witness ==
    /\ ppc = "backoff"
    /\ currentState # Nil
    /\ heap[currentState].stamped

\* C6: no reader sees a torn record: the Timestamp a reader finds in the
\* record it took from the cache is the stamp of line 141.
C6_NoTornRead ==
    \A t \in Tasks : seen[t] # "upstream"

\* C7: a read of the cache made after a write has completed and while no
\* later write is in its critical section returns the record of that write,
\* stamped, with a Timestamp not earlier than the start of the write.
C7_ReadAfterWrite ==
    [][ \A t \in Tasks :
           (ReadStep(t) /\ ppc # "cs" /\ lastWrite # Nil) =>
              /\ grec'[t] = lastWrite
              /\ heap[lastWrite].stamped
              /\ heap[lastWrite].ts >= lastStart ]_vars

\* A reader holds the record of the second completed write.
C7_Witness ==
    \E t \in Tasks :
       /\ pc[t] = "status"
       /\ lastWrite # Nil
       /\ grec[t] = lastWrite
       /\ lastStart > 0
       /\ ppc = "sleep"

\* C8: a "/" request that found the cache empty ends with a response.
C8_EmptyCacheRenders ==
    \A h \in Reqs :
       (pc[h] = "done" /\ report[h].kind = "nil") => hres[h] \in {"ok", "error"}

C10_OnlyWhenPlaying ==
    (\/ pc[Bcast] \in SendPcs
     \/ tickSent # {}
     \/ tickPosts > 0
     \/ report[Bcast] # NoReport
     \/ seen[Bcast] # "none")
    => /\ currentState # Nil
       /\ heap[currentState].playing
       /\ grec[Bcast] = currentState

\* A tick on a paused record with a subscriber registered: nothing was sent.
C10_Witness ==
    /\ pc[Bcast] = "unlock"
    /\ currentState # Nil
    /\ ~heap[currentState].playing
    /\ wsClients # {}
    /\ tickSent = {}

\* C11: a webhook request that fails leaves the tick as a successful one
\* does: the registry, the connections and the serialized snapshot are
\* untouched by it, the request is the only one of the tick, the registry
\* loop comes next and runs to its end with every subscriber of its start
\* written or out of the registry, and the broadcaster then unlocks and
\* sleeps towards the next tick.
C11_WebhookFailureHarmless ==
    [][ /\ (pc[Bcast] = "post" /\ pc'[Bcast] # "post") =>
              /\ pc'[Bcast] = "range"
              /\ tickPosts = 0 /\ tickPosts' = 1
              /\ wsClients' = wsClients /\ connState' = connState
              /\ report'[Bcast] = report[Bcast]
              /\ crashed' = crashed
        /\ (postErr' /\ pc'[Bcast] = "unlock") =>
              /\ ranged'
              /\ \A c \in iterStart' : c \in tickSent' \/ c \notin wsClients'
        /\ (postErr /\ pc[Bcast] = "unlock" /\ pc'[Bcast] # "unlock") =>
              /\ pc'[Bcast] = "sleep"
              /\ mutex' = "free"
              /\ ~postErr' ]_vars

\* A tick whose webhook request failed and whose subscriber was written.
C11_Witness ==
    /\ postErr
    /\ pc[Bcast] = "unlock"
    /\ tickSent # {}

\* C12: a webhook request is made only when REPORT_URL is set, and at most
\* one is made in a tick.
C12_WebhookOnlyIfConfigured ==
    /\ ~reportURL => tickPosts = 0 /\ pc[Bcast] # "post"
    /\ tickPosts <= 1

\* C13: for a record with 0 <= progress <= duration and an elapsed time that
\* is not negative, the extrapolated progress is min(progress + elapsed,
\* duration), it lies between 0 and duration, and remaining is duration
\* minus it and is not negative.
C13_ProgressClamped ==
    (/\ calc.done
     /\ 0 <= calc.progress /\ calc.progress <= calc.duration
     /\ calc.elapsed >= 0)
    => /\ calc.adjusted = (IF calc.progress + calc.elapsed <= calc.duration
                           THEN calc.progress + calc.elapsed
                           ELSE calc.duration)
       /\ 0 <= calc.adjusted /\ calc.adjusted <= calc.duration
       /\ calc.remaining = calc.duration - calc.adjusted
       /\ calc.remaining >= 0

\* A snapshot built so long after the stamp that the clamp applies.
C13_Witness ==
    /\ calc.done
    /\ calc.progress + calc.elapsed > calc.duration
    /\ calc.duration > 0
    /\ calc.adjusted = calc.duration

\* C14: the elapsed time is the clock minus the stamp, to the millisecond,
\* and the record of duration 200000 and progress 50000 stamped 10000 ms
\* before the build gives 60000, "30.00%", "1:00", "3:20" and "2:20".
C14_ElapsedExact ==
    calc.done =>
       /\ calc.elapsed = calc.at - calc.ts
       /\ (/\ calc.duration = 200000 /\ calc.progress = 50000
           /\ calc.at - calc.ts = 10000)
          => /\ calc.adjusted = 60000
             /\ calc.pct = "30.00%"
             /\ calc.progress_str = "1:00"
             /\ calc.duration_str = "3:20"
             /\ calc.remaining_str = "2:20"

\* The pcs of a task inside downloadAlbumArt or extractColors.
ArtPcs == {"head", "get", "copy", "decode"}

\* C15: a record whose duration is 0 gives a snapshot with a defined
\* percentage, and the broadcaster's tick on it goes on to the webhook and
\* the registry.
C15_ZeroDurationZeroPct ==
    /\ \A t \in Tasks :
          (report[t].kind = "map" /\ heap[grec[t]].duration = 0)
             => ~report[t].nan
    /\ (/\ pc[Bcast] = "unlock" /\ report[Bcast].kind = "map"
        /\ heap[grec[Bcast]].duration = 0) => ranged

\* C16: on a tick whose snapshot json.Marshal rejects, the broadcaster goes
\* from the marshal to the unlock: no webhook request, no registry loop, no
\* write, no removal.
C16_FailedMarshalSkipsTick ==
    (report[Bcast].kind = "map" /\ report[Bcast].nan)
    => /\ pc[Bcast] \in {"marshal", "unlock"}
       /\ tickPosts = 0 /\ ~postErr
       /\ ~ranged /\ iterStart = {} /\ tickSent = {} /\ cur = 0

\* A tick ended on a failed marshal with a subscriber registered.
C16_Witness ==
    /\ pc[Bcast] = "unlock"
    /\ report[Bcast].nan
    /\ wsClients # {}
    /\ \E c \in wsClients : connState[c] = "open"

C18_SingleFetch ==
    /\ Cardinality({t \in Tasks : pc[t] \in {"get", "copy"}}) <= 1
    /\ \A t \in Tasks : pc[t] = "get" => artFile = "absent"

\* C19: no stamp is later than the clock, so the elapsed time of line 176 is
\* never negative for a reader of a stamped record; and the record the
\* poller prepares is a fresh one, never one that a write has published.
C19_NoFutureStamp ==
    /\ \A i \in Cells :
          (heap[i].used /\ heap[i].stamped) =>
             /\ heap[i].ts <= now
             /\ ElapsedMs(heap[i].ts, now) >= 0
    /\ pstate # Nil => pstate # lastWrite
    /\ ppc = "lock" => pstate # currentState /\ ~heap[pstate].stamped
    /\ lastWrite # Nil => heap[lastWrite].stamped

\* A reader holds the published record while the poller prepares the next.
C19_Witness ==
    /\ ppc = "lock"
    /\ currentState # Nil
    /\ now > heap[currentState].ts
    /\ \E t \in Tasks : grec[t] = currentState /\ seen[t] = "stamp"

\* C20: no record ends the process or aborts a task: the broadcaster never
\* panics, and a "/" request panics on no record it was given.
C20_NothingFatal ==
    /\ fatal # "panic"
    /\ \A h \in Reqs : hres[h] = "panic" => grec[h] = Nil

\* C21: the text colour is black or white, whichever has the higher contrast
\* ratio against the dominant colour; a second call on the same colour
\* returns the same; white gives black and black gives white.
C21_TextColorByContrast ==
    LET black == <<0, 0, 0>>
        white == <<255, 255, 255>>
    IN  /\ calc.calls >= 1 =>
              /\ calc.first \in {black, white}
              /\ calculateColorContrast(calc.bg, black)
                    > calculateColorContrast(calc.bg, white)
                 => calc.first = black
              /\ calculateColorContrast(calc.bg, white)
                    > calculateColorContrast(calc.bg, black)
                 => calc.first = white
              /\ calc.bg = white => calc.first = black
              /\ calc.bg = black => calc.first = white
        /\ calc.calls = 2 => calc.second = calc.first

\* Two calls on the default dominant colour 248,236,235 returned black.
C21_Witness ==
    /\ calc.calls = 2
    /\ calc.bg = <<248, 236, 235>>
    /\ calc.first = <<0, 0, 0>>

\* C22: under fair scheduling, a poller that has a record to publish and
\* waits at the Lock of line 140 gets past it, unless the process has died.
C22_PollerNotBlocked ==
    (ppc = "lock") ~> (ppc # "lock" \/ crashed)

\* C23: of two successive snapshots of a track that plays continuously, the
\* later one's progress_ms is not below the earlier one's, whether or not
\* the record was replaced in between.
C23_ProgressMonotonic ==
    calc.stage = 2 => calc.s2 >= calc.s1

\* C23 for two snapshots built from the same cached record (the part of the
\* claim that holds).
C23_SameRecordMonotonic ==
    (calc.stage = 2 /\ ~calc.replaced) => calc.s2 >= calc.s1

\* C24: a resolve that finds the file in the cache (the os.Stat of line 325
\* succeeds and no fetch is made) finds the complete image.
C24_HitOnlyOnComplete ==
    [][ \A t \in Tasks :
           (pc[t] = "head" /\ pc'[t] = "decode") => artFile = "complete" ]_vars

====
